---- MODULE Spec2Model ----
(***************************************************************************)
(* FtxClient (src/rest/client.py): the signed-request REST client, its     *)
(* response decoding, the argument validation of modify_order and          *)
(* place_conditional_order, get_position, and the paging loop of           *)
(* get_all_trades.                                                         *)
(*                                                                         *)
(* Python values: an optional value is a sequence of length at most one    *)
(* (None is <<>>, a present value v is <<v>>), so that `is None` and       *)
(* falsy-but-present values such as 0 stay apart.  A path is the tuple of  *)
(* its segments.  A JSON object whose keys are dropped when None is a      *)
(* record of optionals.                                                    *)
(***************************************************************************)
EXTENDS Integers, Sequences, FiniteSets, TLC

VARIABLES pc, call, sent, reply, outcome, end_time, ids, results, response, out, trades,
          api_key, api_secret, subaccount_name, clock, wire

\* the client's credentials, the clock and the last request as it left for the
\* network, headers included (`sent` keeps method, path and payload only)
signing == <<api_key, api_secret, subaccount_name, clock, wire>>

vars == <<pc, call, sent, reply, outcome, end_time, ids, results, response, out, trades,
          api_key, api_secret, subaccount_name, clock, wire>>

None == <<>>

Some(v) == <<v>>

\* ------------------------------------------------------------------ bounds

\* get_all_trades is followed for at most MaxRequests page requests.
MaxRequests == 3

\* get_positions answers with at most MaxPositions positions.
MaxPositions == 3

\* the exchange's trade history has time values 1..MaxTime.
MaxTime == 3

\* ------------------------------------------------------- program constants

\* client.py:165  limit = 100
limit == 100

\* ------------------------------------------------------------ the network

\* HTTP statuses of a response; raise_for_status raises from 400 on.
Statuses == {200, 500}

\* session.send raised instead of answering (no connection): no response exists
ConnectionError == [status |-> 0, parsed |-> FALSE, data |-> [success |-> FALSE]]

\* nothing was sent, so nothing came back
NoReply == [status |-> -1, parsed |-> FALSE, data |-> [success |-> FALSE]]

\* a response whose body response.json() cannot parse
Unparsable(s) == [status |-> s, parsed |-> FALSE, data |-> [success |-> FALSE]]

\* a response whose body parses to the envelope `data`
Parsed(s, data) == [status |-> s, parsed |-> TRUE, data |-> data]

ErrorStrings == {"Invalid parameter"}

\* the envelopes of the exchange over the payloads P: success with a result,
\* failure with an error, failure with an error and a (stray) result
Envelopes(P) ==
    {[success |-> TRUE, result |-> p] : p \in P}
      \cup {[success |-> FALSE, error |-> e] : e \in ErrorStrings}
      \cup {[success |-> FALSE, error |-> e, result |-> p] : e \in ErrorStrings, p \in P}

\* everything session.send can come back with for a request whose payload is in P
Replies(P) ==
    {ConnectionError}
      \cup {Unparsable(s) : s \in Statuses}
      \cup {Parsed(s, d) : s \in Statuses, d \in Envelopes(P)}

\* ------------------------------------------------------- outcomes of a call

NoOutcome == [kind |-> "none", exc |-> "", msg |-> "", value |-> None]

Raise(exc, msg) == [kind |-> "raise", exc |-> exc, msg |-> msg, value |-> None]

Return(v) == [kind |-> "return", exc |-> "", msg |-> "", value |-> Some(v)]

\* response.raise_for_status(); raise   -- client.py:52-53
ProcessUnparsedDropsRaise(r) ==
    IF r.status >= 400 THEN Raise("HTTPError", "") ELSE Return(None)

ProcessUnparsed(r) ==
    IF r.status >= 400 THEN Raise("HTTPError", "") ELSE Raise("ValueError", "")

\* _process_response   -- client.py:48-57
ProcessResponse(r) ==
    IF ~r.parsed
    THEN ProcessUnparsed(r)
    ELSE IF ~r.data.success
         THEN Raise("Exception", r.data.error)
         ELSE Return(r.data.result)

\* the request as prepared for the wire: GET carries params, POST/DELETE a json body
Req(method, path, payload) == [method |-> method, path |-> path, payload |-> payload]

\* _request up to session.send: what one invocation puts on the wire   -- client.py:29-32
RequestSendsTwice(method, path, payload) ==
    <<Req(method, path, payload), Req(method, path, payload)>>

Request(method, path, payload) == <<Req(method, path, payload)>>

\* _get / _post   -- client.py:20-24
Get(path, params) == Request("GET", path, params)

Post(path, params) == Request("POST", path, params)

\* _request from session.send on: what the invocation hands its caller when the
\* wire comes back with r   -- client.py:32-33
Decode(r) ==
    IF r = ConnectionError THEN Raise("ConnectionError", "") ELSE ProcessResponse(r)

\* ------------------------------------------------------------ modify_order

OrderIds == {None, Some("A")}

ClientOrderIds == {None, Some("B")}

Prices == {None, Some(0), Some(10)}

Sizes == {None, Some(5)}

NewClientIds == {None, Some("c1")}

OrderPayloads == {"order"}

\* the two assertions of modify_order   -- client.py:88-90
ModifyOrderValidIdsOnly(existing_order_id, existing_client_order_id, price, size) ==
    (existing_order_id = None) # (existing_client_order_id = None)

ModifyOrderValid(existing_order_id, existing_client_order_id, price, size) ==
    /\ (existing_order_id = None) # (existing_client_order_id = None)
    /\ (price = None) \/ (size = None)

\* client.py:91-92
ModifyOrderPath(existing_order_id, existing_client_order_id) ==
    IF existing_order_id # None
    THEN <<"orders", existing_order_id[1], "modify">>
    ELSE <<"orders", "by_client_id", existing_client_order_id[1], "modify">>

\* modify_order up to the send   -- client.py:83-97
ModifyOrder ==
    /\ pc = "idle"
    /\ \E existing_order_id \in OrderIds, existing_client_order_id \in ClientOrderIds,
          price \in Prices, size \in Sizes, client_order_id \in NewClientIds :
         /\ call' = [op |-> "modify_order",
                     existing_order_id |-> existing_order_id,
                     existing_client_order_id |-> existing_client_order_id,
                     price |-> price, size |-> size,
                     client_order_id |-> client_order_id]
         /\ IF ~ModifyOrderValid(existing_order_id, existing_client_order_id, price, size)
            THEN /\ outcome' = Raise("AssertionError", "")
                 /\ pc' = "failed"
                 /\ sent' = sent
            ELSE /\ sent' = sent \o Post(ModifyOrderPath(existing_order_id,
                                                         existing_client_order_id),
                                         [size |-> size, price |-> price,
                                          clientId |-> client_order_id])
                 /\ pc' = "await"
                 /\ outcome' = outcome
    /\ UNCHANGED <<reply, end_time, ids, results, response, out, trades>>
    /\ UNCHANGED signing

\* ------------------------------------------------- place_conditional_order

Markets == {"BTC-PERP"}

Sides == {"buy", "sell"}

OrderTypes == {"stop", "take_profit", "trailing_stop", "limit"}

TriggerPrices == {None, Some(0), Some(100)}

TrailValues == {None, Some(5)}

LimitPrices == {None, Some(99)}

\* the three assertions of place_conditional_order   -- client.py:127-131
ConditionalOrderValidAllowsTrigger(type, trigger_price, trail_value) ==
    /\ type \in {"stop", "take_profit", "trailing_stop"}
    /\ type \notin {"stop", "take_profit"} \/ trigger_price # None
    /\ type \notin {"trailing_stop"} \/ trail_value # None

ConditionalOrderValid(type, trigger_price, trail_value) ==
    /\ type \in {"stop", "take_profit", "trailing_stop"}
    /\ type \notin {"stop", "take_profit"} \/ trigger_price # None
    /\ type \notin {"trailing_stop"} \/ (trigger_price = None /\ trail_value # None)

\* the json body of the POST   -- client.py:134-136
ConditionalOrderBody(market, side, size, type, limit_price, reduce_only, cancel, trigger_price, trail_value) ==
    [market |-> market, side |-> side, triggerPrice |-> trigger_price,
     size |-> size, reduceOnly |-> reduce_only, type |-> "stop",
     cancelLimitOnTrigger |-> cancel, orderPrice |-> limit_price]

\* place_conditional_order up to the send   -- client.py:116-136
PlaceConditionalOrder ==
    /\ pc = "idle"
    /\ \E market \in Markets, side \in Sides, type \in OrderTypes,
          limit_price \in LimitPrices, trigger_price \in TriggerPrices,
          trail_value \in TrailValues :
         /\ call' = [op |-> "place_conditional_order",
                     market |-> market, side |-> side, size |-> 1, type |-> type,
                     limit_price |-> limit_price, reduce_only |-> FALSE, cancel |-> TRUE,
                     trigger_price |-> trigger_price, trail_value |-> trail_value]
         /\ IF ~ConditionalOrderValid(type, trigger_price, trail_value)
            THEN /\ outcome' = Raise("AssertionError", "")
                 /\ pc' = "failed"
                 /\ sent' = sent
            ELSE /\ sent' = sent \o Post(<<"conditional_orders">>,
                                         ConditionalOrderBody(market, side, 1, type,
                                                              limit_price, FALSE, TRUE,
                                                              trigger_price, trail_value))
                 /\ pc' = "await"
                 /\ outcome' = outcome
    /\ UNCHANGED <<reply, end_time, ids, results, response, out, trades>>
    /\ UNCHANGED signing

\* ------------------------------------------------------------ get_position

Futures == {"BTC-PERP", "ETH-PERP"}

FutureNames == {"BTC-PERP", "ETH-PERP", "SOL-PERP"}

\* a position of the positions endpoint: its future and a field telling positions apart
Positions == [future : Futures, size : {1, 2}]

SeqsUpTo(S, n) == UNION {[1..k -> S] : k \in 0..n}

PositionLists == SeqsUpTo(Positions, MaxPositions)

\* next(filter(lambda x: x['future'] == name, positions), None)   -- client.py:161
LastMatch(positions, name) ==
    LET hits == SelectSeq(positions, LAMBDA x : x.future = name)
    IN  IF hits = <<>> THEN None ELSE Some(hits[Len(hits)])

FirstMatch(positions, name) ==
    LET hits == SelectSeq(positions, LAMBDA x : x.future = name)
    IN  IF hits = <<>> THEN None ELSE Some(Head(hits))

\* get_positions up to the send   -- client.py:157-158
GetPositions(show_avg_price) ==
    Get(<<"positions">>, [showAvgPrice |-> Some(show_avg_price)])

\* get_position up to the send of get_positions   -- client.py:160-161
GetPosition ==
    /\ pc = "idle"
    /\ \E name \in FutureNames, show_avg_price \in BOOLEAN :
         /\ call' = [op |-> "get_position", name |-> name,
                     show_avg_price |-> show_avg_price]
         /\ sent' = sent \o GetPositions(show_avg_price)
    /\ pc' = "await"
    /\ UNCHANGED <<reply, outcome, end_time, ids, results, response, out, trades>>
    /\ UNCHANGED signing

\* ---------------------------------------------------------- get_all_trades

StartTimes == {None, Some(2)}

EndTimes == {None, Some(2)}

Orders == {None, Some("asc")}

Min(a, b) == IF a <= b THEN a ELSE b

\* min(t['time'] for t in response)   -- client.py:179
NewestTime(page) ==
    CHOOSE m \in {page[k].time : k \in DOMAIN page} :
        \A k \in DOMAIN page : m >= page[k].time

MinTime(page) ==
    CHOOSE m \in {page[k].time : k \in DOMAIN page} :
        \A k \in DOMAIN page : m <= page[k].time

\* end_time = min(t['time'] for t in response)   -- client.py:179
NextEndTimeStrictlyOlder(page) == Some(MinTime(page) - 1)

NextEndTime(page) == Some(MinTime(page))

\* [r for r in response if r['id'] not in ids]   -- client.py:173
Deduped(page, seen) == SelectSeq(page, LAMBDA r : r.id \notin seen)

\* if len(response) < limit: break   -- client.py:180
ShortPageOrFull(page) == Len(page) <= limit

ShortPage(page) == Len(page) < limit

\* the observer of the wire and of stdout keeps the first MaxRequests entries
Observe(log, entries) == SubSeq(log \o entries, 1, Min(Len(log \o entries), MaxRequests))

\* get_all_trades up to the loop   -- client.py:163-166
GetAllTrades ==
    /\ pc = "idle"
    /\ \E market \in Markets, start_time \in StartTimes, et \in EndTimes, order \in Orders :
         /\ call' = [op |-> "get_all_trades", market |-> market,
                     start_time |-> start_time, end_time |-> et, order |-> order]
         /\ end_time' = et
    /\ ids' = {}
    /\ results' = <<>>
    /\ pc' = "loop"
    /\ UNCHANGED <<sent, reply, outcome, response, out, trades>>
    /\ UNCHANGED signing

\* the loop's request   -- client.py:167-172
SendPageRequest ==
    /\ pc = "loop"
    /\ sent' = Observe(sent, Get(<<"markets", call.market, "trades">>,
                                 [end_time |-> end_time, start_time |-> call.start_time,
                                  order |-> call.order]))
    /\ pc' = "await"
    /\ UNCHANGED <<call, reply, outcome, end_time, ids, results, response, out, trades>>
    /\ UNCHANGED signing

\* the loop's request, followed for MaxRequests requests
RequestPage ==
    /\ Len(sent) < MaxRequests
    /\ SendPageRequest

\* the rest of the iteration, the page being `page`   -- client.py:173-182
Iteration(page) ==
    LET deduped_trades == Deduped(page, ids)
        extended == results \o deduped_trades
    IN  /\ response' = page
        /\ results' = extended
        /\ ids' = ids \cup {deduped_trades[k].id : k \in DOMAIN deduped_trades}
        /\ out' = Observe(out, <<[n |-> Len(page), end_time |-> end_time]>>)
        /\ IF Len(page) = 0
           THEN /\ end_time' = end_time
                /\ pc' = "done"
                /\ outcome' = Return(extended)
           ELSE /\ end_time' = NextEndTime(page)
                /\ IF ShortPage(page)
                   THEN /\ pc' = "done"
                        /\ outcome' = Return(extended)
                   ELSE /\ pc' = "loop"
                        /\ outcome' = outcome

\* the wire comes back with r: _request decodes it and the caller goes on
\* -- client.py:33, 93, 133, 161, 168-182
Deliver(r) ==
    /\ pc = "await"
    /\ reply' = r
    /\ IF Decode(r).kind = "raise"
       THEN /\ outcome' = Decode(r)
            /\ pc' = "failed"
            /\ UNCHANGED <<end_time, ids, results, response, out>>
       ELSE CASE call.op = "get_all_trades" ->
                   Iteration(Decode(r).value[1])
              [] call.op = "get_position" ->
                   /\ outcome' = Return(FirstMatch(Decode(r).value[1], call.name))
                   /\ pc' = "done"
                   /\ UNCHANGED <<end_time, ids, results, response, out>>
              [] OTHER ->
                   /\ outcome' = Decode(r)
                   /\ pc' = "done"
                   /\ UNCHANGED <<end_time, ids, results, response, out>>
    /\ UNCHANGED <<call, sent, trades>>
    /\ UNCHANGED signing

\* --- an endpoint that may answer anything

PageTops == {300, 205, 110}

PageSizes == {0, 40, 100, 101}

\* a page of n trades, newest first, from id `top` down; with dup its second
\* record repeats the id of its first.  The oldest time sits in second place.
PageOf(top, n, dup) ==
    [k \in 1..n |->
        [id   |-> IF dup /\ k >= 2 THEN top - k + 2 ELSE top - k + 1,
         time |-> (top \div 100) + (IF k = 2 THEN 0 ELSE 1)]]

AnyPages ==
    {PageOf(top, n, FALSE) : top \in PageTops, n \in PageSizes}
      \cup {PageOf(205, n, TRUE) : n \in {40, 100}}

\* a page, or one of the failures of the taxonomy
AnyReplies ==
    {ConnectionError, Unparsable(200), Unparsable(500),
     Parsed(200, [success |-> FALSE, error |-> "Invalid parameter"])}
      \cup {Parsed(200, [success |-> TRUE, result |-> p]) : p \in AnyPages}

RepliesFor(op) ==
    CASE op = "get_all_trades" -> AnyReplies
      [] op = "get_position" -> Replies(PositionLists)
      [] OTHER -> Replies(OrderPayloads)

\* the wire comes back with anything
Receive == \E r \in RepliesFor(call.op) : Deliver(r)

\* --- the exchange of the trades endpoint's contract: a finite history, each
\* request answered with the (up to limit) newest trades of the window

TradeCounts == {0, 40, 60, 100}

RECURSIVE CountUpTo(_, _)
CountUpTo(counts, t) == IF t = 0 THEN 0 ELSE counts[t] + CountUpTo(counts, t - 1)

\* the history with counts[t] trades at time t, oldest first, ids in order of time
History(counts) ==
    [i \in 1..CountUpTo(counts, MaxTime) |->
        [id |-> i,
         time |-> CHOOSE t \in 1..MaxTime :
                      CountUpTo(counts, t - 1) < i /\ i <= CountUpTo(counts, t)]]

Histories == {History(counts) : counts \in [1..MaxTime -> TradeCounts]}

InWindow(x, start_time, et) ==
    /\ start_time = None \/ x.time >= start_time[1]
    /\ et = None \/ x.time <= et[1]

\* GET markets/{market}/trades?start_time=..&end_time=..: newest first
ExchangeAnswer(history, start_time, et) ==
    LET inwin == SelectSeq(history, LAMBDA x : InWindow(x, start_time, et))
        n == Min(Len(inwin), limit)
    IN  [k \in 1..n |-> inwin[Len(inwin) - k + 1]]

\* the exchange answers the request in flight, which carries the call's
\* start_time and the loop's current end_time   -- client.py:168-172
ExchangeReceive ==
    /\ pc = "await"
    /\ \E page \in {ExchangeAnswer(trades, call.start_time, end_time)} :
          Deliver(Parsed(200, [success |-> TRUE, result |-> page]))

\* ------------------------------------------------------- signed requests
\* Text is the sequence of its pieces, so that concatenation is \o.

Digit(d) == <<"0", "1", "2", "3", "4", "5", "6", "7", "8", "9">>[d + 1]

\* str(ts)   -- client.py:38, 44
RECURSIVE Digits(_)
Digits(n) == IF n < 10 THEN <<Digit(n)>> ELSE Digits(n \div 10) \o <<Digit(n % 10)>>

\* int(time.time() * 1000): what the clock may read   -- client.py:36
ClockReadings == {7, 42, 1700}

ApiKeys == {"", "K"}

ApiSecrets == {"", "S"}

\* subaccount_name: None, '' (as src/rest/cex_module.py:13), 'sub', 'my sub'
SubaccountNames == {None, Some(<<>>), Some(<<"sub">>), Some(<<"my", " ", "sub">>)}

\* the paths of the endpoint methods, as pieces
SignedPaths == {<<"orders">>, <<"orders", "/", "A", "/", "modify">>}

\* the dicts the endpoint methods pass: none, empty, with a None value, with values
ParamDicts ==
    {None, Some(<<>>),
     Some(<<[k |-> "market", v |-> None]>>),
     Some(<<[k |-> "market", v |-> Some("BTC-PERP")]>>),
     Some(<<[k |-> "size", v |-> Some("5")], [k |-> "price", v |-> None]>>)}

\* Request(method, self._ENDPOINT + path, **kwargs)   -- client.py:30
NewRequest(method, path, params, json) ==
    [method |-> method, path |-> path, params |-> params, json |-> json, headers |-> <<>>]

\* the query string of the prepared URL: None values are dropped
RECURSIVE EncodeQuery(_)
EncodeQuery(pairs) ==
    IF pairs = <<>> THEN <<>>
    ELSE <<Head(pairs).k, "=", Head(pairs).v[1]>>
           \o (IF Tail(pairs) = <<>> THEN <<>> ELSE <<"&">> \o EncodeQuery(Tail(pairs)))

Query(params) ==
    IF params = None THEN <<>>
    ELSE IF SelectSeq(params[1], LAMBDA p : p.v # None) = <<>> THEN <<>>
    ELSE <<"?">> \o EncodeQuery(SelectSeq(params[1], LAMBDA p : p.v # None))

\* the json body: None values stay, as null; an empty dict is "{}"
RECURSIVE EncodeJson(_)
EncodeJson(pairs) ==
    IF pairs = <<>> THEN <<>>
    ELSE <<Head(pairs).k, ":", IF Head(pairs).v = None THEN "null" ELSE Head(pairs).v[1]>>
           \o (IF Tail(pairs) = <<>> THEN <<>> ELSE <<",">> \o EncodeJson(Tail(pairs)))

Body(json) ==
    IF json = None THEN None ELSE Some(<<"{">> \o EncodeJson(json[1]) \o <<"}">>)

\* request.prepare(): the request as it goes on the wire   -- client.py:32, 37
Prepare(request) ==
    [method   |-> request.method,
     path_url |-> <<"/api/">> \o request.path \o Query(request.params),
     body     |-> Body(request.json),
     headers  |-> request.headers]

\* hmac.new(secret, payload, 'sha256').hexdigest(): fixed by the key and the message
Hmac(secret, payload) == [key |-> secret, msg |-> payload]

\* urllib.parse.quote: a space becomes %20
Quote(text) == [i \in DOMAIN text |-> IF text[i] = " " THEN "%20" ELSE text[i]]

\* signature_payload   -- client.py:38-40
SignaturePayloadWithoutBody(ts, prepared) ==
    Digits(ts) \o <<prepared.method>> \o prepared.path_url

SignaturePayload(ts, prepared) ==
    Digits(ts) \o <<prepared.method>> \o prepared.path_url
      \o (IF prepared.body # None /\ prepared.body[1] # <<>> THEN prepared.body[1] ELSE <<>>)

\* the headers _sign_request sets   -- client.py:41-46
SignedHeaders(request, ts) ==
    ("FTX-KEY" :> api_key)
      @@ ("FTX-SIGN" :> Hmac(api_secret, SignaturePayload(ts, Prepare(request))))
      @@ ("FTX-TS" :> Digits(ts))
      @@ (IF subaccount_name # None /\ subaccount_name[1] # <<>>
          THEN "FTX-SUBACCOUNT" :> Quote(subaccount_name[1])
          ELSE <<>>)

\* _sign_request   -- client.py:35-46
SignRequest(request, ts) == [request EXCEPT !.headers = SignedHeaders(request, ts)]

\* _request up to and with session.send, the clock reading ts   -- client.py:29-32
SendSigned(method, path, params, json) ==
    /\ \E ts \in ClockReadings :
         /\ ts >= clock
         /\ clock' = ts
         /\ wire' = Some(Prepare(SignRequest(NewRequest(method, path, params, json), ts)))
    /\ UNCHANGED <<pc, call, sent, reply, outcome, end_time, ids, results, response, out,
                   trades, api_key, api_secret, subaccount_name>>

\* _get: the dict goes to the query string   -- client.py:20-21
SignedGet == \E path \in SignedPaths, params \in ParamDicts : SendSigned("GET", path, params, None)

\* _post: the dict goes to the json body   -- client.py:23-24
SignedPost == \E path \in SignedPaths, params \in ParamDicts : SendSigned("POST", path, None, params)

\* _delete: the dict goes to the json body   -- client.py:26-27
SignedDelete == \E path \in SignedPaths, params \in ParamDicts : SendSigned("DELETE", path, None, params)

\* ------------------------------------------------------------------- model

Init ==
    /\ pc = "idle"
    /\ call = [op |-> "none"]
    /\ sent = <<>>
    /\ reply = NoReply
    /\ outcome = NoOutcome
    /\ end_time = None
    /\ ids = {}
    /\ results = <<>>
    /\ response = <<>>
    /\ out = <<>>
    /\ trades = <<>>
    /\ api_key = "K"
    /\ api_secret = "S"
    /\ subaccount_name = None
    /\ clock = 0
    /\ wire = None

Next ==
    \/ ModifyOrder
    \/ PlaceConditionalOrder
    \/ GetPosition
    \/ GetAllTrades
    \/ RequestPage
    \/ Receive

Spec == Init /\ [][Next]_vars

\* get_all_trades against the exchange
InitExchange ==
    /\ pc = "idle"
    /\ call = [op |-> "none"]
    /\ sent = <<>>
    /\ reply = NoReply
    /\ outcome = NoOutcome
    /\ end_time = None
    /\ ids = {}
    /\ results = <<>>
    /\ response = <<>>
    /\ out = <<>>
    /\ trades \in Histories
    /\ api_key = "K"
    /\ api_secret = "S"
    /\ subaccount_name = None
    /\ clock = 0
    /\ wire = None

NextExchange ==
    \/ GetAllTrades
    \/ SendPageRequest
    \/ ExchangeReceive

SpecExchange == InitExchange /\ [][NextExchange]_vars

\* the loop is sequential code: while the exchange answers, it takes its next step
SpecExchangeFair == SpecExchange /\ WF_vars(NextExchange)

\* the transport of a client constructed with any credentials
InitSign ==
    /\ pc = "idle"
    /\ call = [op |-> "none"]
    /\ sent = <<>>
    /\ reply = NoReply
    /\ outcome = NoOutcome
    /\ end_time = None
    /\ ids = {}
    /\ results = <<>>
    /\ response = <<>>
    /\ out = <<>>
    /\ trades = <<>>
    /\ api_key \in ApiKeys
    /\ api_secret \in ApiSecrets
    /\ subaccount_name \in SubaccountNames
    /\ clock = 0
    /\ wire = None

NextSign ==
    \/ SignedGet
    \/ SignedPost
    \/ SignedDelete

SpecSign == InitSign /\ [][NextSign]_vars

\* ------------------------------------------------------------------ claims

IdsOf(list) == {list[k].id : k \in DOMAIN list}

Returned == outcome.value[1]

\* C1: the list get_all_trades returns holds no two records with equal id, and
\* every id of the page just received is in it, whatever pages the endpoint returned.
C1_NoTwoRecordsWithEqualId ==
    (call.op = "get_all_trades" /\ outcome.kind = "return") =>
        /\ Cardinality(IdsOf(Returned)) = Len(Returned)
        /\ IdsOf(response) \subseteq IdsOf(Returned)

\* C2: against the exchange (a finite history, each request answered with the
\* up to 100 newest trades of the window) get_all_trades eventually returns.
C2_Terminates == (call.op = "get_all_trades") ~> (pc = "done")

\* C3: request k+1 is issued if and only if page k held 100 or more records: a
\* page under 100 ends the call right after request k, a page of 100 or more
\* leaves the loop at its next request; a first page of size 0 gives the empty
\* list after one request.
C3_StopsAtFirstShortPage ==
    call.op = "get_all_trades" =>
        /\ \A k \in 1..Len(out) :
              /\ out[k].n >= 100 => (k < Len(sent) \/ (k = Len(sent) /\ pc = "loop"))
              /\ out[k].n < 100 => (k = Len(sent) /\ k = Len(out) /\ pc = "done")
        /\ Len(sent) <= Len(out) + 1
        /\ (Len(out) >= 1 /\ out[1].n = 0) =>
              (Len(sent) = 1 /\ pc = "done" /\ outcome = Return(<<>>))

C3_ThreePagesThreeRequests ==
    /\ call.op = "get_all_trades"
    /\ pc = "done"
    /\ Len(sent) = 3
    /\ Len(out) = 3
    /\ out[1].n = 100 /\ out[2].n = 100 /\ out[3].n = 40

\* C4: against the exchange, whenever get_all_trades returns, its result holds
\* every trade of the history whose time lies in the caller's window.
C4_CompleteHistory ==
    (call.op = "get_all_trades" /\ outcome.kind = "return") =>
        \A i \in DOMAIN trades :
            ( /\ call.start_time = None \/ trades[i].time >= call.start_time[1]
              /\ call.end_time = None \/ trades[i].time <= call.end_time[1] )
            => trades[i].id \in IdsOf(Returned)

C4_ReturnedOverSeveralPages ==
    /\ call.op = "get_all_trades"
    /\ call.start_time # None
    /\ outcome.kind = "return"
    /\ Len(out) >= 2
    /\ Len(Returned) > 100
    /\ Len(Returned) < Len(trades)

\* C5: decoding a response has three outcomes: an unparsable body is a failure
\* whatever the status; success=false is a failure whose message is the error
\* field, with no payload; success=true returns exactly the result field; a
\* value reaches the caller only out of a success envelope, never the envelope.
C5_ThreeOutcomes ==
    (reply # NoReply /\ reply # ConnectionError) =>
        /\ ~reply.parsed =>
              /\ outcome.kind = "raise"
              /\ outcome.exc \in {"HTTPError", "ValueError"}
              /\ outcome.value = None
        /\ (reply.parsed /\ ~reply.data.success) =>
              /\ outcome.kind = "raise"
              /\ outcome.exc = "Exception"
              /\ outcome.msg = reply.data.error
              /\ outcome.value = None
        /\ (reply.parsed /\ reply.data.success
              /\ call.op \in {"modify_order", "place_conditional_order"}) =>
              /\ outcome.kind = "return"
              /\ outcome.value = Some(reply.data.result)
        /\ outcome.kind = "return" => (reply.parsed /\ reply.data.success)

C5_ErrorEnvelopeWithPayload ==
    /\ reply.parsed
    /\ reply.data = [success |-> FALSE, error |-> "Invalid parameter", result |-> "order"]
    /\ outcome = Raise("Exception", "Invalid parameter")

\* C6: modify_order sends a request if and only if exactly one of the two ids and
\* at most one of price / size is supplied; otherwise it fails validation with
\* nothing sent; the path is orders/{id}/modify for an order id and
\* orders/by_client_id/{client_id}/modify otherwise.
C6_ModifyOrderValidation ==
    call.op = "modify_order" =>
        LET oneId == \/ (call.existing_order_id # None /\ call.existing_client_order_id = None)
                     \/ (call.existing_order_id = None /\ call.existing_client_order_id # None)
            atMostOne == ~(call.price # None /\ call.size # None)
        IN  /\ (sent # <<>>) <=> (oneId /\ atMostOne)
            /\ ~(oneId /\ atMostOne) =>
                  (pc = "failed" /\ outcome = Raise("AssertionError", ""))
            /\ (oneId /\ atMostOne) =>
                  /\ Len(sent) = 1
                  /\ sent[1].method = "POST"
                  /\ sent[1].path =
                        IF call.existing_order_id # None
                        THEN <<"orders", call.existing_order_id[1], "modify">>
                        ELSE <<"orders", "by_client_id",
                               call.existing_client_order_id[1], "modify">>

C6_SentByClientId ==
    /\ call.op = "modify_order"
    /\ call.existing_order_id = None
    /\ call.price = Some(0)
    /\ Len(sent) = 1
    /\ sent[1].path = <<"orders", "by_client_id", "B", "modify">>

C8_SendsTheTypeAsked ==
    (call.op = "place_conditional_order" /\ sent # <<>>) =>
        sent[1].payload.type = call.type

\* C9: get_position returns the first element, in list order, of the positions
\* whose future equals name, and None when none does (the empty list too); it
\* fails only when get_positions fails.
C9_FirstMatchOrNone ==
    (call.op = "get_position" /\ pc \in {"done", "failed"}) =>
        IF reply.parsed /\ reply.data.success
        THEN LET L == reply.data.result
                 hits == {i \in DOMAIN L : L[i].future = call.name}
             IN  /\ pc = "done"
                 /\ outcome.kind = "return"
                 /\ hits = {} => Returned = None
                 /\ hits # {} =>
                       \E i \in hits : (\A j \in hits : i <= j) /\ Returned = Some(L[i])
        ELSE pc = "failed" /\ outcome.kind = "raise"

C9_FirstOfTwoMatches ==
    /\ call.op = "get_position"
    /\ pc = "done"
    /\ reply.parsed /\ reply.data.success
    /\ Len(reply.data.result) = 3
    /\ reply.data.result[1].future # call.name
    /\ reply.data.result[2].future = call.name
    /\ reply.data.result[3].future = call.name
    /\ reply.data.result[2] # reply.data.result[3]
    /\ Returned = Some(reply.data.result[2])

\* C10: one transport invocation is one network attempt, and a failure ends the
\* call: no request follows it, the caller gets that failure and no value; in
\* get_all_trades the requests sent are the pages processed plus the one in
\* flight or failed.
C10_SingleAttemptNoRetry ==
    /\ [](call.op \in {"modify_order", "place_conditional_order", "get_position"} =>
             /\ Len(sent) <= 1
             /\ pc \in {"await", "done"} => Len(sent) = 1)
    /\ [](call.op = "get_all_trades" =>
             Len(sent) = Len(out) + (IF pc \in {"await", "failed"} THEN 1 ELSE 0))
    /\ []((reply # NoReply /\ (~reply.parsed \/ ~reply.data.success)) =>
             /\ pc = "failed"
             /\ outcome.kind = "raise"
             /\ outcome.value = None
             /\ outcome.exc = (IF reply = ConnectionError THEN "ConnectionError"
                               ELSE IF reply.parsed THEN "Exception"
                               ELSE IF reply.status >= 400 THEN "HTTPError"
                               ELSE "ValueError"))
    /\ [][pc = "failed" => (sent' = sent /\ pc' = "failed" /\ outcome' = outcome)]_vars

C10_SecondPageFailed ==
    /\ call.op = "get_all_trades"
    /\ pc = "failed"
    /\ Len(sent) = 2
    /\ Len(results) >= 100
    /\ reply = ConnectionError
    /\ outcome = Raise("ConnectionError", "")

\* C11: for every request sent, the signature is made over the timestamp string,
\* the method, the path with query string and the body (left out when empty), in
\* this order and as they stand in the request sent; the timestamp header is the
\* timestamp signed, read from the clock at signing; the key, signature and
\* timestamp headers are always there; the sub-account header is there if and
\* only if a non-empty sub-account is configured.
C11_SignedAsSent ==
    wire # None =>
        LET w == wire[1]
            h == wire[1].headers
        IN  /\ {"FTX-KEY", "FTX-SIGN", "FTX-TS"} \subseteq DOMAIN h
            /\ h["FTX-KEY"] = api_key
            /\ h["FTX-TS"] = Digits(clock)
            /\ h["FTX-SIGN"] =
                  [key |-> api_secret,
                   msg |-> h["FTX-TS"] \o <<w.method>> \o w.path_url
                             \o (IF w.body = None THEN <<>> ELSE w.body[1])]
            /\ ("FTX-SUBACCOUNT" \in DOMAIN h)
                  <=> (subaccount_name # None /\ subaccount_name # Some(<<>>))

C11_PostWithBodyAndSubaccount ==
    /\ wire # None
    /\ subaccount_name = Some(<<"my", " ", "sub">>)
    /\ wire[1].method = "POST"
    /\ wire[1].body = Some(<<"{", "size", ":", "5", ",", "price", ":", "null", "}">>)
    /\ wire[1].headers["FTX-SUBACCOUNT"] = <<"my", "%20", "sub">>
    /\ wire[1].headers["FTX-TS"] = <<"4", "2">>
    /\ wire[1].headers["FTX-SIGN"].msg =
          <<"4", "2", "POST", "/api/", "orders", "{", "size", ":", "5", ",",
            "price", ":", "null", "}">>

\* C12: in one get_all_trades call the first request carries the caller's
\* end_time and each later one the least time of the page just before it, while
\* market, start_time and order are the caller's in every request; and a request
\* that follows a page holding only records with time <= the end_time it was
\* requested with carries an end_time no greater than that one (no end_time
\* being no bound), so the requested end_times never increase over such pages.
C12_EndTimeWalksBack ==
    /\ [](call.op = "get_all_trades" =>
             /\ sent # <<>> => sent[1].payload.end_time = call.end_time
             /\ \A k \in DOMAIN sent :
                   /\ sent[k].method = "GET"
                   /\ sent[k].path = <<"markets", call.market, "trades">>
                   /\ sent[k].payload.start_time = call.start_time
                   /\ sent[k].payload.order = call.order)
    /\ [][(call.op = "get_all_trades" /\ sent # <<>> /\ Len(sent') = Len(sent) + 1) =>
             LET before == sent[Len(sent)].payload.end_time
                 after == sent'[Len(sent')].payload.end_time
             IN  /\ after # None
                 /\ \E k \in DOMAIN response : response[k].time = after[1]
                 /\ \A k \in DOMAIN response : after[1] <= response[k].time
                 /\ (\A k \in DOMAIN response :
                        before = None \/ response[k].time <= before[1])
                      => (before = None \/ after[1] <= before[1])]_vars

C12_ThreeRequestsWalkingBack ==
    /\ call.op = "get_all_trades"
    /\ call.start_time = Some(2)
    /\ Len(sent) = 3
    /\ sent[1].payload.end_time = None
    /\ sent[2].payload.end_time = Some(3)
    /\ sent[3].payload.end_time = Some(2)
    /\ sent[3].payload.start_time = Some(2)

====
